---------------------------- MODULE Spec2Model ----------------------------
(***************************************************************************)
(* A model of the tensor-transform engine of image-processing-rust         *)
(* (src/src/imagetor/mod.rs): the pixel tensor Vec<Vec<Vec<f32>>>, the     *)
(* axis flips, the bilinear resize, the watermark compositor and the       *)
(* scale-to-fit computation of fit_center / mean_center.                   *)
(*                                                                         *)
(* Numbers.  Every f32 of the code is modelled bit-exactly as an IEEE-754   *)
(* binary32 value (24-bit significand, round to nearest, ties to even):    *)
(* the channel values, the weights of the blends, the source coordinates   *)
(* of resize and the scale factor of fit_center.  u32 / usize values are   *)
(* integers; `as f32` and `as u32` are the conversions F32FromU32 and      *)
(* F32Trunc.                                                               *)
(*                                                                         *)
(* Indices.  Rust indexes from 0, TLA+ sequences from 1: the code's        *)
(* tensor[y][x][c] is tensor[y+1][x+1][c+1] here.                          *)
(***************************************************************************)
EXTENDS Integers, Sequences, FiniteSets, TLC

VARIABLES
    tensor,     \* the tensor the transforms mutate (&mut Vec<Vec<Vec<f32>>>)
    prev,       \* its value before the last operation
    prev2,      \* its value before the operation before that
    lastOp,     \* the last operation applied
    lastOp2,    \* the operation before that
    logo,       \* the overlay handed to the last addwatermark
    newdims,    \* the <<width, height>> handed to the last resize
    result,     \* outcome of the last operation: "none", "Ok", "Err", "panic"
    steps,      \* operations applied so far (bounded in Spec)
    overflow_checks, \* the build: TRUE debug (overflow panics), FALSE release (wraps)
    fit         \* fit_center: inputs, and factor / nwidth / nheight once computed

vars == <<tensor, prev, prev2, lastOp, lastOp2, logo, newdims, result, steps,
          overflow_checks, fit>>

(***************************************************************************)
(* Bounds of the model.                                                    *)
(***************************************************************************)
MaxFlipDim == 3
MaxBaseDim == 3
MaxLogoDim == 3
MaxOldDim == 3
MaxNewDim == 3
MaxSeqDim == 2
MaxSteps == 2
MaxFitDim == 5

CHANNELS == 4

(***************************************************************************)
(* IEEE-754 binary32 (f32) arithmetic on the values the code meets: zero,  *)
(* positive finite numbers, +infinity and NaN.  A value is <<kind, m, s>>: *)
(* "zero", "inf", "nan" (with m = s = 0), or "fin", the number m / 2^s     *)
(* with 2^23 <= m < 2^24.  Every operation rounds to nearest, ties to      *)
(* even, as the hardware does.  (No operand of the code is negative: the   *)
(* channels lie in [0, 1], the weights are dx, 1 - dx, alpha, 1 - alpha.   *)
(* Exponents stay far from the subnormal and overflow ranges.)             *)
(***************************************************************************)
F32Zero == <<"zero", 0, 0>>
F32Inf == <<"inf", 0, 0>>
F32NaN == <<"nan", 0, 0>>

\* Number of bits of n >= 0
RECURSIVE BitLen(_)
BitLen(n) == IF n = 0 THEN 0 ELSE 1 + BitLen(n \div 2)

\* A 24-bit significand q and what was cut off below it, compared to one
\* half of its last place: round to nearest, ties to even; a carry out of
\* 24 bits renormalises.
F32Round(q, s, aboveHalf, exactlyHalf) ==
    LET up == aboveHalf \/ (exactlyHalf /\ q % 2 = 1)
        m == IF up THEN q + 1 ELSE q
    IN  IF m = 2^24 THEN <<"fin", 2^23, s - 1>> ELSE <<"fin", m, s>>

\* The f32 nearest to n / 2^s (n > 0), or to a number strictly between
\* n / 2^s and (n + 1) / 2^s when sticky.
F32Pack(n, s, sticky) ==
    LET b == BitLen(n)
        d == b - 24
    IN  IF d <= 0 THEN <<"fin", n * 2^(24 - b), s + (24 - b)>>
        ELSE F32Round(n \div 2^d, s - d,
                      (n % 2^d) > 2^(d - 1) \/ ((n % 2^d) = 2^(d - 1) /\ sticky),
                      (n % 2^d) = 2^(d - 1) /\ ~sticky)

\* n as f32, for an unsigned integer n: rounded when n has more than 24 bits
F32FromU32(n) == IF n = 0 THEN F32Zero ELSE F32Pack(n, 0, FALSE)

F32One == F32FromU32(1)

\* Long division of significands: q = floor(a * 2^s / b), r = a * 2^s mod b,
\* until q has 24 bits.
RECURSIVE F32DivLoop(_, _, _, _)
F32DivLoop(q, r, s, b) ==
    IF q >= 2^23 THEN F32Round(q, s, 2 * r > b, 2 * r = b)
    ELSE F32DivLoop(2 * q + ((2 * r) \div b), (2 * r) % b, s + 1, b)

\* p / q
F32Div(p, q) ==
    CASE p[1] = "nan" \/ q[1] = "nan" -> F32NaN
      [] p[1] = "inf" -> (IF q[1] = "inf" THEN F32NaN ELSE F32Inf)
      [] q[1] = "inf" -> F32Zero
      [] q[1] = "zero" -> (IF p[1] = "zero" THEN F32NaN ELSE F32Inf)
      [] p[1] = "zero" -> F32Zero
      [] OTHER ->
           LET r == F32DivLoop(p[2] \div q[2], p[2] % q[2], 0, q[2])
           IN  <<"fin", r[2], r[3] + p[3] - q[3]>>

\* p * q.  The 48-bit product of the significands is held as hi * 2^24 + lo,
\* built from 12-bit halves.
F32Mul(p, q) ==
    CASE p[1] = "nan" \/ q[1] = "nan" -> F32NaN
      [] p[1] = "inf" -> (IF q[1] = "zero" THEN F32NaN ELSE F32Inf)
      [] q[1] = "inf" -> (IF p[1] = "zero" THEN F32NaN ELSE F32Inf)
      [] p[1] = "zero" \/ q[1] = "zero" -> F32Zero
      [] OTHER ->
           LET a1 == p[2] \div 2^12
               a0 == p[2] % 2^12
               b1 == q[2] \div 2^12
               b0 == q[2] % 2^12
               mid == a1 * b0 + a0 * b1
               low == a0 * b0 + (mid % 2^12) * 2^12
               lo == low % 2^24
               hi == a1 * b1 + (mid \div 2^12) + (low \div 2^24)
           IN  IF hi >= 2^23
               THEN F32Round(hi, p[3] + q[3] - 24, lo > 2^23, lo = 2^23)
               ELSE F32Round(2 * hi + (lo \div 2^23), p[3] + q[3] - 23,
                             (lo % 2^23) > 2^22, (lo % 2^23) = 2^22)

\* p <= q, for values that are not NaN
F32Le(p, q) ==
    CASE p[1] = "zero" -> TRUE
      [] p[1] = "inf" -> q[1] = "inf"
      [] q[1] = "zero" -> FALSE
      [] q[1] = "inf" -> TRUE
      [] OTHER -> p[3] > q[3] \/ (p[3] = q[3] /\ p[2] <= q[2])

\* f32::min: a NaN operand yields the other operand
F32Min(p, q) ==
    IF p[1] = "nan" THEN q
    ELSE IF q[1] = "nan" THEN p
    ELSE IF F32Le(p, q) THEN p ELSE q

\* big + small for finite big >= small > 0.  With e the distance of their
\* exponents, the small operand is aligned to a quarter of big's last place;
\* what falls below that is remembered as sticky.
F32AddOrdered(big, small) ==
    LET e == small[3] - big[3]
    IN  IF e <= 6
        THEN F32Pack(big[2] * 2^e + small[2], small[3], FALSE)
        ELSE IF e >= 27
        THEN F32Pack(big[2] * 4, big[3] + 2, TRUE)
        ELSE F32Pack(big[2] * 4 + (small[2] \div 2^(e - 2)), big[3] + 2,
                     (small[2] % 2^(e - 2)) # 0)

\* p + q
F32Add(p, q) ==
    CASE p[1] = "nan" \/ q[1] = "nan" -> F32NaN
      [] p[1] = "inf" \/ q[1] = "inf" -> F32Inf
      [] p[1] = "zero" -> q
      [] q[1] = "zero" -> p
      [] OTHER -> IF F32Le(q, p) THEN F32AddOrdered(p, q) ELSE F32AddOrdered(q, p)

\* p - q for finite p >= q >= 0
F32Sub(p, q) ==
    CASE q[1] = "zero" -> p
      [] p = q -> F32Zero
      [] OTHER ->
           LET e == q[3] - p[3]
           IN  IF e <= 6
               THEN F32Pack(p[2] * 2^e - q[2], q[3], FALSE)
               ELSE IF e >= 28
               THEN F32Pack(p[2] * 8 - 1, p[3] + 3, TRUE)
               ELSE IF (q[2] % 2^(e - 3)) = 0
               THEN F32Pack(p[2] * 8 - (q[2] \div 2^(e - 3)), p[3] + 3, FALSE)
               ELSE F32Pack(p[2] * 8 - (q[2] \div 2^(e - 3)) - 1, p[3] + 3, TRUE)

\* f as u32 / f as i32 of a value that is not negative: truncation, NaN to 0.
\* (An infinity would saturate; none reaches a cast in this code.)
F32Trunc(f) ==
    CASE f[1] = "zero" \/ f[1] = "nan" -> 0
      [] f[1] = "fin" ->
           IF f[3] >= 24 THEN 0
           ELSE IF f[3] >= 0 THEN f[2] \div 2^(f[3])
           ELSE f[2] * 2^(0 - f[3])

\* a as f32 / b as f32
F32DivU32(a, b) == F32Div(F32FromU32(a), F32FromU32(b))

\* n as f32 * f
F32MulU32(n, f) == F32Mul(F32FromU32(n), f)

\* The channel values 0.0, 1.0, 0.5 and 0.25
Zero == F32Zero
One == F32One
Half == F32DivU32(1, 2)
Quarter == F32DivU32(1, 4)

(***************************************************************************)
(* Tensors: a sequence of rows, each a sequence of pixels, each a sequence *)
(* of CHANNELS values.                                                     *)
(***************************************************************************)
Rectangular(t) ==
    /\ \A y \in 1..Len(t) : Len(t[y]) = Len(t[1])
    /\ \A y \in 1..Len(t) : \A x \in 1..Len(t[y]) : Len(t[y][x]) = CHANNELS

\* A faulty ZeroTensor: the buffer is allocated one column too wide.
ZeroTensor_ExtraColumn(width, height) ==
    [y \in 1..height |-> [x \in 1..(width + 1) |-> [c \in 1..CHANNELS |-> Zero]]]

\* vec![vec![vec![0f32; CHANNELS]; width]; height]
ZeroTensor(width, height) ==
    [y \in 1..height |-> [x \in 1..width |-> [c \in 1..CHANNELS |-> Zero]]]

\* to_tensor, line 21: the byte c of a decoded image becomes c as f32 / 255.0
Channel(c) == F32DivU32(c, 255)

\* Pixels the input tensors are drawn from: R, G, B, A.
Palette ==
    << <<One, One, One, One>>,                                  \* opaque white
       <<One, Zero, Zero, Half>>,                               \* half-transparent red
       <<Zero, Zero, One, One>>,                                \* opaque blue
       <<Zero, Zero, Zero, Zero>>,                              \* transparent black
       <<Channel(200), Channel(100), Channel(50), Channel(128)>>, \* as decoded from bytes
       <<Half, One, Zero, Zero>>,                               \* fully transparent, coloured
       <<Zero, Half, Channel(85), Quarter>> >>                  \* alpha 1/4

\* A width x height tensor whose pixels run through the palette in row-major
\* order starting at pixel s: neighbouring pixels differ.
Pattern(width, height, s) ==
    [y \in 1..height |-> [x \in 1..width |->
        Palette[((s + (y - 1) * width + (x - 1)) % Len(Palette)) + 1]]]

Seeds == 0..(Len(Palette) - 1)

Tensors(minDim, maxW, maxH) ==
    {Pattern(w, h, s) : w \in minDim..maxW, h \in minDim..maxH, s \in Seeds}

(***************************************************************************)
(* flip_vertical (mod.rs 152-164).                                         *)
(***************************************************************************)
\* A faulty SwapRowsFrom: the rows are not cloned first, so the bottom row receives the top
\* row's already overwritten pixels.
RECURSIVE SwapRowsFrom_NoClone(_, _, _, _, _, _)
SwapRowsFrom_NoClone(t, y, top_row, bottom_row, x, width) ==
    IF x >= width THEN t
    ELSE LET t1 == [t EXCEPT ![y + 1][x + 1] = t[Len(t) - y - 1 + 1][x + 1]]
             t2 == [t1 EXCEPT ![Len(t) - y - 1 + 1][x + 1] = t1[y + 1][x + 1]]
         IN  SwapRowsFrom_NoClone(t2, y, top_row, bottom_row, x + 1, width)

\* for x in 0..width { tensor[y][x] = bottom_row[x]; tensor[h-y-1][x] = top_row[x] }
RECURSIVE SwapRowsFrom(_, _, _, _, _, _)
SwapRowsFrom(t, y, top_row, bottom_row, x, width) ==
    IF x >= width THEN t
    ELSE SwapRowsFrom(
            [t EXCEPT ![y + 1][x + 1] = bottom_row[x + 1],
                      ![Len(t) - y - 1 + 1][x + 1] = top_row[x + 1]],
            y, top_row, bottom_row, x + 1, width)

\* A faulty FlipVerticalFrom: the loop runs over every row instead of the upper half, swapping
\* each pair twice.
RECURSIVE FlipVerticalFrom_AllRows(_, _, _, _)
FlipVerticalFrom_AllRows(t, y, width, height) ==
    IF y >= height THEN t
    ELSE FlipVerticalFrom_AllRows(
            SwapRowsFrom(t, y, t[y + 1], t[height - y - 1 + 1], 0, width),
            y + 1, width, height)

\* for y in 0..height / 2 { clone both rows; swap them pixel by pixel }
RECURSIVE FlipVerticalFrom(_, _, _, _)
FlipVerticalFrom(t, y, width, height) ==
    IF y >= height \div 2 THEN t
    ELSE FlipVerticalFrom(
            SwapRowsFrom(t, y, t[y + 1], t[height - y - 1 + 1], 0, width),
            y + 1, width, height)

flip_vertical(t) == FlipVerticalFrom(t, 0, Len(t[1]), Len(t))

(***************************************************************************)
(* flip_horizontal (mod.rs 167-179).                                       *)
(***************************************************************************)
\* for x in 0..width / 2 { swap tensor[y][x] and tensor[y][width-x-1] }
RECURSIVE SwapColsFrom(_, _, _, _)
SwapColsFrom(t, y, x, width) ==
    IF x >= width \div 2 THEN t
    ELSE LET left_col == t[y + 1][x + 1]
             right_col == t[y + 1][width - x - 1 + 1]
         IN  SwapColsFrom(
                [t EXCEPT ![y + 1][x + 1] = right_col,
                          ![y + 1][width - x - 1 + 1] = left_col],
                y, x + 1, width)

\* for y in 0..height { ... }
RECURSIVE FlipHorizontalFrom(_, _, _, _)
FlipHorizontalFrom(t, y, width, height) ==
    IF y >= height THEN t
    ELSE FlipHorizontalFrom(SwapColsFrom(t, y, 0, width), y + 1, width, height)

flip_horizontal(t) == FlipHorizontalFrom(t, 0, Len(t[1]), Len(t))

(***************************************************************************)
(* resize (mod.rs 55-83): bilinear resample into a zero-initialised        *)
(* buffer that then replaces the tensor.                                   *)
(***************************************************************************)
\* One iteration of the x loop (lines 61-79): the new value of temp[y][x].
ResizePixel(t, temp, x, y, width, height, old_width, old_height) ==
    LET old_x == F32Div(F32Mul(F32FromU32(x), F32FromU32(old_width)), F32FromU32(width))
        old_y == F32Div(F32Mul(F32FromU32(y), F32FromU32(old_height)), F32FromU32(height))
        x0 == F32Trunc(old_x)
        y0 == F32Trunc(old_y)
        dx == F32Sub(old_x, F32FromU32(x0))
        dy == F32Sub(old_y, F32FromU32(y0))
    IN  IF x0 < 0 \/ x0 >= old_width - 1 \/ y0 < 0 \/ y0 >= old_height - 1
        THEN temp[y + 1][x + 1]        \* continue: the pixel stays as allocated
        ELSE [c \in 1..CHANNELS |->
                F32Add(F32Add(F32Add(
                    F32Mul(F32Mul(F32Sub(One, dx), F32Sub(One, dy)), t[y0 + 1][x0 + 1][c]),
                    F32Mul(F32Mul(dx, F32Sub(One, dy)), t[y0 + 1][x0 + 1 + 1][c])),
                    F32Mul(F32Mul(F32Sub(One, dx), dy), t[y0 + 1 + 1][x0 + 1][c])),
                    F32Mul(F32Mul(dx, dy), t[y0 + 1 + 1][x0 + 1 + 1][c]))]

\* The loops of lines 59-81 and the final `*tensor = temp_tensor`.  Iteration
\* (x, y) reads the old tensor and writes temp_tensor[y][x] only, so the
\* loops are the pixel-wise map below; what they do not reach stays as
\* allocated.
resize(t, width, height) ==
    LET temp_tensor == ZeroTensor(width, height)
        old_width == Len(t[1])
        old_height == Len(t)
    IN  [y \in 1..Len(temp_tensor) |-> [x \in 1..Len(temp_tensor[y]) |->
            IF y <= height /\ x <= width
            THEN ResizePixel(t, temp_tensor, x - 1, y - 1, width, height,
                             old_width, old_height)
            ELSE temp_tensor[y][x]]]

(***************************************************************************)
(* addwatermark (mod.rs 118-149).                                          *)
(***************************************************************************)
\* A faulty BlendPixel: the alpha channel of the base pixel is left as it was.
BlendPixel_KeepsAlpha(basePx, logoPx) ==
    LET alpha == logoPx[4]
    IN  [c \in 1..CHANNELS |->
            IF c <= CHANNELS - 1
            THEN F32Add(F32Mul(F32Sub(One, alpha), basePx[c]), F32Mul(alpha, logoPx[c]))
            ELSE basePx[c]]

\* Lines 141-145: the three colour channels are blended with the overlay's
\* alpha, the alpha channel is set to 1.0.
BlendPixel(basePx, logoPx) ==
    LET alpha == logoPx[4]
    IN  [c \in 1..CHANNELS |->
            IF c <= CHANNELS - 1
            THEN F32Add(F32Mul(F32Sub(One, alpha), basePx[c]), F32Mul(alpha, logoPx[c]))
            ELSE One]

\* for x in offset_x..offset_x + lwidth, on the row at index row_i of the base
\* and row y of the overlay.
RECURSIVE BlendRowFrom(_, _, _, _, _, _, _)
BlendRowFrom(base, logoimage, row_i, y, x, offset_x, lwidth) ==
    IF x >= offset_x + lwidth THEN base
    ELSE BlendRowFrom(
            [base EXCEPT ![row_i + 1][x + 1] =
                BlendPixel(base[row_i + 1][x + 1], logoimage[y + 1][x - offset_x + 1])],
            logoimage, row_i, y, x + 1, offset_x, lwidth)

\* iter_mut().skip(offset_y).take(lheight).enumerate(): overlay row y meets
\* base row offset_y + y, for as long as the base has rows.
RECURSIVE BlendRowsFrom(_, _, _, _, _, _, _)
BlendRowsFrom(base, logoimage, y, offset_x, offset_y, lwidth, lheight) ==
    IF y >= lheight \/ offset_y + y >= Len(base) THEN base
    ELSE BlendRowsFrom(
            BlendRowFrom(base, logoimage, offset_y + y, y, offset_x, offset_x, lwidth),
            logoimage, y + 1, offset_x, offset_y, lwidth, lheight)

\* A faulty EmptyOutcome: an empty input is accepted silently.
EmptyOutcome_ReturnsOk(basedimage) == [result |-> "Ok", base |-> basedimage]

\* Lines 122-124: the early return on an empty overlay or base.
EmptyOutcome(basedimage) == [result |-> "Err", base |-> basedimage]

\* A faulty CenterOffset: the offset is not halved, which puts the overlay in the far corner.
CenterOffset_NotHalved(blen, llen) == blen - llen

\* Lines 131-132: (bwidth - lwidth) / 2, for blen >= llen.
CenterOffset(blen, llen) == (blen - llen) \div 2

\* A faulty OversizeOutcome: a dimension check that returns an error.
OversizeOutcome_ReturnsErr(basedimage, bheight, lheight, checked) ==
    [result |-> "Err", base |-> basedimage]

\* Lines 131-147 when the overlay is wider or taller than the base, so that
\* bwidth - lwidth or bheight - lheight (usize) underflows.  checked is the
\* build's overflow-checks setting (on in a debug build, off in a release
\* build).  With the checks on, the subtraction panics.  With them off it
\* wraps to 2^64 - k, so the offset is at least 2^63 - k, beyond the length
\* of any Vec: a wrapped offset_y makes skip() exhaust the rows, so that
\* nothing is written and Ok(()) is returned; a wrapped offset_x (with
\* offset_y in range) makes the first row[x] at line 143 panic on its index,
\* before anything is written.
OversizeOutcome(basedimage, bheight, lheight, checked) ==
    IF checked
    THEN [result |-> "panic", base |-> basedimage]
    ELSE IF lheight > bheight
         THEN [result |-> "Ok", base |-> basedimage]
         ELSE [result |-> "panic", base |-> basedimage]

\* The outcome of addwatermark(&logoimage, &mut basedimage): the Result (or a
\* panic) and the base tensor afterwards.
addwatermark(logoimage, basedimage, checked) ==
    IF Len(logoimage) = 0 \/ Len(basedimage) = 0
    THEN EmptyOutcome(basedimage)
    ELSE LET bwidth == Len(basedimage[1])
             bheight == Len(basedimage)
             lwidth == Len(logoimage[1])
             lheight == Len(logoimage)
         IN  IF lwidth > bwidth \/ lheight > bheight
             THEN OversizeOutcome(basedimage, bheight, lheight, checked)
             ELSE LET offset_x == CenterOffset(bwidth, lwidth)
                      offset_y == CenterOffset(bheight, lheight)
                  IN  [result |-> "Ok",
                       base |-> BlendRowsFrom(basedimage, logoimage, 0,
                                              offset_x, offset_y, lwidth, lheight)]

(***************************************************************************)
(* mean_center (mod.rs 96-105) and fit_center (mod.rs 85-94).              *)
(***************************************************************************)
mean_center(tx, ty, dx, dy) ==
    IF tx > dx \/ ty > dy
    THEN LET scale_x == F32DivU32(dx, tx)
             scale_y == F32DivU32(dy, ty)
         IN  F32Min(scale_x, scale_y)
    ELSE F32One

\* The factor and the dimensions fit_center hands to image1.resize.
fit_center(width1, height1, width2, height2) ==
    LET factor == mean_center(width1, height1, width2, height2)
        nwidth == F32Trunc(F32MulU32(width1, factor))
        nheight == F32Trunc(F32MulU32(height1, factor))
    IN  [factor |-> factor, nwidth |-> nwidth, nheight |-> nheight]

(***************************************************************************)
(* The state machine.  One action per transform; a panic ends the run.     *)
(***************************************************************************)
NoFit ==
    [width1 |-> 0, height1 |-> 0, width2 |-> 0, height2 |-> 0, done |-> FALSE,
     factor |-> F32Zero, nwidth |-> 0, nheight |-> 0]

InitTensor(t) ==
    /\ tensor = t
    /\ prev = t
    /\ prev2 = t
    /\ lastOp = "none"
    /\ lastOp2 = "none"
    /\ logo = <<>>
    /\ newdims = <<0, 0>>
    /\ result = "none"
    /\ steps = 0
    /\ fit = NoFit

\* The bookkeeping every tensor operation shares.
Record(op) ==
    /\ prev' = tensor
    /\ prev2' = prev
    /\ lastOp' = op
    /\ lastOp2' = lastOp
    /\ UNCHANGED <<overflow_checks, fit>>

\* flip_vertical(&mut tensor); tensor[0] needs a first row.
FlipVertical ==
    /\ result # "panic"
    /\ Len(tensor) > 0
    /\ tensor' = flip_vertical(tensor)
    /\ result' = "Ok"
    /\ Record("flip_vertical")
    /\ UNCHANGED <<logo, newdims>>

\* flip_horizontal(&mut tensor)
FlipHorizontal ==
    /\ result # "panic"
    /\ Len(tensor) > 0
    /\ tensor' = flip_horizontal(tensor)
    /\ result' = "Ok"
    /\ Record("flip_horizontal")
    /\ UNCHANGED <<logo, newdims>>

\* resize(&mut tensor, width, height) on a tensor with at least one row and
\* one column (old_width - 1 is a usize subtraction), to a size of up to
\* maxDim x maxDim or to the size it has.
Resize(maxDim) ==
    /\ result # "panic"
    /\ Len(tensor) > 0
    /\ Len(tensor[1]) > 0
    /\ \E d \in ((1..maxDim) \X (1..maxDim)) \cup {<<Len(tensor[1]), Len(tensor)>>} :
          /\ tensor' = resize(tensor, d[1], d[2])
          /\ newdims' = d
    /\ result' = "Ok"
    /\ Record("resize")
    /\ UNCHANGED logo

\* addwatermark(&logoimage, &mut tensor) with an overlay drawn from logos
AddWatermark(logos) ==
    /\ result # "panic"
    /\ \E logoimage \in logos :
          LET r == addwatermark(logoimage, tensor, overflow_checks)
          IN  /\ tensor' = r.base
              /\ result' = r.result
              /\ logo' = logoimage
    /\ Record("addwatermark")
    /\ UNCHANGED newdims

\* let factor = mean_center(..); nwidth = ..; nheight = ..  (fit_center)
FitCenter ==
    /\ ~fit.done
    /\ LET r == fit_center(fit.width1, fit.height1, fit.width2, fit.height2)
       IN  fit' = [fit EXCEPT !.done = TRUE, !.factor = r.factor,
                              !.nwidth = r.nwidth, !.nheight = r.nheight]
    /\ UNCHANGED <<tensor, prev, prev2, lastOp, lastOp2, logo, newdims, result,
                   steps, overflow_checks>>

(***************************************************************************)
(* Spec: the transforms in any order, MaxSteps of them, on small tensors.  *)
(***************************************************************************)
SeqLogos == {Pattern(w, h, 1) : w \in 0..MaxSeqDim, h \in 0..MaxSeqDim}

Init ==
    /\ \E w \in 1..MaxSeqDim, h \in 1..MaxSeqDim : InitTensor(Pattern(w, h, 0))
    /\ overflow_checks \in BOOLEAN

\* One more operation, up to limit of them.
Tick(limit) == steps < limit /\ steps' = steps + 1

Next ==
    \/ Tick(MaxSteps) /\ FlipVertical
    \/ Tick(MaxSteps) /\ FlipHorizontal
    \/ Tick(MaxSteps) /\ Resize(MaxSeqDim)
    \/ Tick(MaxSteps) /\ AddWatermark(SeqLogos)

Spec == Init /\ [][Next]_vars

(***************************************************************************)
(* SpecFlip: the two flips, any number of times.                           *)
(***************************************************************************)
InitFlip ==
    /\ \E t \in Tensors(1, MaxFlipDim, MaxFlipDim) : InitTensor(t)
    /\ overflow_checks = FALSE

NextFlip ==
    \/ FlipVertical /\ UNCHANGED steps
    \/ FlipHorizontal /\ UNCHANGED steps

SpecFlip == InitFlip /\ [][NextFlip]_vars

(***************************************************************************)
(* SpecResize: one resize of a tensor of up to MaxOldDim x MaxOldDim, or of *)
(* a 4099 x 2 one (wide enough for x * old_width to need more than the 24  *)
(* bits of a binary32 significand), to up to MaxNewDim x MaxNewDim or to   *)
(* its own size.                                                           *)
(***************************************************************************)
ResizeSamples == {Pattern(4099, 2, 0)}

InitResize ==
    /\ \E t \in Tensors(1, MaxOldDim, MaxOldDim) \cup ResizeSamples : InitTensor(t)
    /\ overflow_checks = FALSE

NextResize == Tick(1) /\ Resize(MaxNewDim)

SpecResize == InitResize /\ [][NextResize]_vars

(***************************************************************************)
(* SpecWatermark: one addwatermark; base and overlay may be empty, and the *)
(* overlay may exceed the base.                                            *)
(***************************************************************************)
InitWatermark ==
    /\ \E t \in Tensors(0, MaxBaseDim, MaxBaseDim) : InitTensor(t)
    /\ overflow_checks \in BOOLEAN

NextWatermark == Tick(1) /\ AddWatermark(Tensors(0, MaxLogoDim, MaxLogoDim))

SpecWatermark == InitWatermark /\ [][NextWatermark]_vars

(***************************************************************************)
(* SpecFit: fit_center on image sizes up to MaxFitDim, and a few larger    *)
(* ones: the documented example, sizes where the binary32 product rounds   *)
(* below an integer, and sizes above 2^24 = 16777216, which `as f32` no    *)
(* longer converts exactly.                                                *)
(***************************************************************************)
FitSamples ==
    { <<400, 300, 100, 100>>, <<1, 41, 1, 1>>, <<23, 23, 7, 7>>,
      <<49, 98, 7, 14>>, <<300, 400, 640, 480>>,
      <<16777217, 1, 16777217, 1>>, <<16777219, 2, 16777219, 2>>,
      <<16777220, 1, 16777219, 1>> }

FitInputs ==
    {<<a, b, c, d>> : a \in 0..MaxFitDim, b \in 0..MaxFitDim,
                      c \in 0..MaxFitDim, d \in 0..MaxFitDim} \cup FitSamples

InitFit ==
    /\ tensor = <<>>
    /\ prev = <<>>
    /\ prev2 = <<>>
    /\ lastOp = "none"
    /\ lastOp2 = "none"
    /\ logo = <<>>
    /\ newdims = <<0, 0>>
    /\ result = "none"
    /\ steps = 0
    /\ overflow_checks = FALSE
    /\ \E q \in FitInputs :
          fit = [NoFit EXCEPT !.width1 = q[1], !.height1 = q[2],
                              !.width2 = q[3], !.height2 = q[4]]

NextFit == FitCenter

SpecFit == InitFit /\ [][NextFit]_vars

(***************************************************************************)
(* Properties of addwatermark, checked under SpecWatermark.  In a state    *)
(* with lastOp = "addwatermark", prev is the base before the call, tensor  *)
(* the base after it and logo the overlay.                                 *)
(***************************************************************************)
Watermarked == lastOp = "addwatermark"

\* The overlay and the base have rows, and the overlay is no wider and no
\* taller than the base.
OverlayFits ==
    /\ Len(logo) >= 1
    /\ Len(prev) >= 1
    /\ Len(logo[1]) <= Len(prev[1])
    /\ Len(logo) <= Len(prev)

\* The claims' own centring offsets, from the sizes of prev and logo.
OffsetX == (Len(prev[1]) - Len(logo[1])) \div 2
OffsetY == (Len(prev) - Len(logo)) \div 2

\* Position (x, y), counted from 1, lies inside the centred rectangle.
InsideOverlay(x, y) ==
    /\ OffsetX < x /\ x <= OffsetX + Len(logo[1])
    /\ OffsetY < y /\ y <= OffsetY + Len(logo)

\* C1: addWatermark fails with the empty-input error whenever the overlay or
\* the base has zero rows, whatever the other holds, and leaves the base as
\* it was.
C1_EmptyInputFails ==
    (Watermarked /\ (Len(logo) = 0 \/ Len(prev) = 0))
        => (result = "Err" /\ tensor = prev)

\* C1 witness: an empty overlay was put on a base that has pixels.
C1_Witness ==
    /\ Watermarked
    /\ Len(logo) = 0
    /\ Len(prev) >= 2
    /\ Len(prev[1]) >= 2
    /\ result = "Err"

\* C2: for an overlay that fits, addWatermark succeeds, the base keeps its
\* width and height, and every base pixel outside the centred rectangle
\* keeps all its channels.
C2_OnlyCentredRectangleChanges ==
    (Watermarked /\ OverlayFits)
        => /\ result = "Ok"
           /\ Len(tensor) = Len(prev)
           /\ \A y \in 1..Len(prev) :
                 /\ Len(tensor[y]) = Len(prev[y])
                 /\ \A x \in 1..Len(prev[y]) :
                       ~InsideOverlay(x, y) => tensor[y][x] = prev[y][x]

\* C2 witness: a 1 x 1 overlay changed the middle pixel of a 3 x 3 base.
C2_Witness ==
    /\ Watermarked
    /\ OverlayFits
    /\ Len(prev) = 3 /\ Len(prev[1]) = 3
    /\ Len(logo) = 1 /\ Len(logo[1]) = 1
    /\ tensor[2][2] # prev[2][2]

\* C3: for an overlay that fits, every overlay pixel (x, y) is blended once
\* into base pixel (x + offsetX, y + offsetY): each colour channel becomes
\* (1 - alpha) * old + alpha * overlay with the overlay pixel's alpha, and
\* the base pixel's alpha becomes 1; alpha 1 yields the overlay's colour,
\* alpha 0 the old colour.
C3_BlendedOnce ==
    (Watermarked /\ OverlayFits)
        => \A y \in 1..Len(logo) : \A x \in 1..Len(logo[1]) :
              LET new == tensor[y + OffsetY][x + OffsetX]
                  old == prev[y + OffsetY][x + OffsetX]
                  over == logo[y][x]
                  alpha == over[4]
              IN  /\ \A c \in 1..3 :
                        new[c] = F32Add(F32Mul(F32Sub(One, alpha), old[c]),
                                      F32Mul(alpha, over[c]))
                  /\ new[4] = One
                  /\ alpha = One => \A c \in 1..3 : new[c] = over[c]
                  /\ alpha = Zero => \A c \in 1..3 : new[c] = old[c]

\* C3 witness: the documented case, a half-transparent red pixel over a blue
\* one gives (1/2, 0, 1/2) with alpha 1.
C3_Witness ==
    /\ Watermarked
    /\ OverlayFits
    /\ logo = << << <<One, Zero, Zero, Half>> >> >>
    /\ prev = << << <<Zero, Zero, One, One>> >> >>
    /\ tensor = << << <<Half, Zero, Half, One>> >> >>

\* C9: when both tensors have rows but the overlay is wider or taller than
\* the base, addWatermark does not return an error: it returns the
\* empty-input error for an empty input and no error otherwise.
C9_NoErrorForOversize ==
    Watermarked
        => (result = "Err" <=> (Len(logo) = 0 \/ Len(prev) = 0))

\* C9 witness: an overlay taller than the base, and a call that returned
\* Ok(()).
C9_Witness ==
    /\ Watermarked
    /\ Len(prev) >= 1
    /\ Len(logo) > Len(prev)
    /\ result = "Ok"

(***************************************************************************)
(* Properties of the flips, checked under SpecFlip.                        *)
(***************************************************************************)
\* C4: applying the same flip twice is the identity, for flipVertical and
\* for flipHorizontal, on tensors of odd and even width and height.
C4_DoubleFlipIsIdentity ==
    /\ (lastOp = "flip_vertical" /\ lastOp2 = "flip_vertical") => tensor = prev2
    /\ (lastOp = "flip_horizontal" /\ lastOp2 = "flip_horizontal") => tensor = prev2

\* C4 witness: a tensor of 3 rows was flipped vertically twice, and the
\* first flip had changed it.
C4_Witness ==
    /\ lastOp = "flip_vertical"
    /\ lastOp2 = "flip_vertical"
    /\ Len(tensor) = 3
    /\ prev # prev2
    /\ tensor = prev2

\* C5: after flipVertical the pixel at row y, column x is the old pixel at
\* row height-1-y, column x; after flipHorizontal it is the old pixel at row
\* y, column width-1-x; width and height are unchanged; the middle row
\* (column) of an odd height (width) is untouched.
C5_FlipIsMirror ==
    /\ lastOp = "flip_vertical" =>
          /\ Len(tensor) = Len(prev)
          /\ \A y \in 1..Len(prev) :
                /\ Len(tensor[y]) = Len(prev[1])
                /\ \A x \in 1..Len(prev[1]) :
                      tensor[y][x] = prev[Len(prev) + 1 - y][x]
          /\ Len(prev) % 2 = 1 =>
                tensor[(Len(prev) + 1) \div 2] = prev[(Len(prev) + 1) \div 2]
    /\ lastOp = "flip_horizontal" =>
          /\ Len(tensor) = Len(prev)
          /\ \A y \in 1..Len(prev) :
                /\ Len(tensor[y]) = Len(prev[1])
                /\ \A x \in 1..Len(prev[1]) :
                      tensor[y][x] = prev[y][Len(prev[1]) + 1 - x]
                /\ Len(prev[1]) % 2 = 1 =>
                      tensor[y][(Len(prev[1]) + 1) \div 2]
                          = prev[y][(Len(prev[1]) + 1) \div 2]

\* C5 witness: a flipHorizontal of a tensor of 3 columns moved a pixel.
C5_Witness ==
    /\ lastOp = "flip_horizontal"
    /\ Len(prev[1]) = 3
    /\ Len(prev) = 2
    /\ tensor[1][1] # prev[1][1]
    /\ tensor[1][1] = prev[1][3]

(***************************************************************************)
(* Properties of fit_center, checked under SpecFit.                        *)
(***************************************************************************)
Positive == fit.width1 > 0 /\ fit.height1 > 0 /\ fit.width2 > 0 /\ fit.height2 > 0

SourceExceedsTarget == fit.width1 > fit.width2 \/ fit.height1 > fit.height2

\* Every size is below 2^24, so `as f32` converts it exactly.
SizesConvertExactly ==
    /\ fit.width1 < 16777216 /\ fit.height1 < 16777216
    /\ fit.width2 < 16777216 /\ fit.height2 < 16777216

Min(a, b) == IF a <= b THEN a ELSE b

\* floor(width1 * min(width2/width1, height2/height1)) in exact arithmetic,
\* and the same for the height.
ExactWidth == Min(fit.width2, (fit.width1 * fit.height2) \div fit.height1)
ExactHeight == Min(fit.height2, (fit.height1 * fit.width2) \div fit.width1)

\* What C6 says of a finished fit_center.
NeverUpscales ==
    /\ (Positive /\ fit.width1 <= fit.width2 /\ fit.height1 <= fit.height2)
          => /\ fit.factor = F32One
             /\ fit.nwidth = fit.width1
             /\ fit.nheight = fit.height1
    /\ fit.factor[1] \in {"zero", "fin"}
    /\ F32Le(fit.factor, F32One)
    /\ fit.nwidth <= fit.width1
    /\ fit.nheight <= fit.height1

\* C6: for positive sizes with the source no larger than the target in both
\* axes, the factor is exactly 1.0 and the computed dimensions are the
\* source's; for every input the factor is at most 1.0 and the computed
\* dimensions do not exceed the source's.
C6_NeverUpscales == fit.done => NeverUpscales

\* C6, where it fails: a 16777219 x 2 source fitted into a target of its own
\* size comes out 16777220 wide, wider than the source.
C6_Witness ==
    /\ fit.done
    /\ <<fit.width1, fit.height1, fit.width2, fit.height2>>
           = <<16777219, 2, 16777219, 2>>
    /\ fit.factor = F32One
    /\ fit.nwidth = 16777220
    /\ fit.nwidth > fit.width1

\* C6 holds for the sizes `as f32` converts exactly.
C6_HoldsBelow2Pow24 == (fit.done /\ SizesConvertExactly) => NeverUpscales

\* What C7 says of a finished fit_center whose source exceeds the target.
ShrinksIntoTarget ==
    /\ fit.factor = F32Min(F32DivU32(fit.width2, fit.width1),
                           F32DivU32(fit.height2, fit.height1))
    /\ fit.nwidth = F32Trunc(F32MulU32(fit.width1, fit.factor))
    /\ fit.nheight = F32Trunc(F32MulU32(fit.height1, fit.factor))
    /\ fit.nwidth <= fit.width2
    /\ fit.nheight <= fit.height2
    /\ (<<fit.width1, fit.height1, fit.width2, fit.height2>>
            = <<400, 300, 100, 100>>)
          => (fit.nwidth = 100 /\ fit.nheight = 75)

\* C7: when the source exceeds the target in an axis, the factor is
\* min(targetW/sourceW, targetH/sourceH), the computed dimensions are the
\* floors of source * factor, and they fit within the target, so that the
\* fitted overlay does not exceed the base; source (400, 300) and target
\* (100, 100) give (100, 75).
C7_ShrinksIntoTarget ==
    (fit.done /\ Positive /\ SourceExceedsTarget) => ShrinksIntoTarget

\* C7, where it fails: a source 16777220 wide fitted into a target 16777219
\* wide keeps its width and exceeds the target.
C7_Witness ==
    /\ fit.done
    /\ <<fit.width1, fit.height1, fit.width2, fit.height2>>
           = <<16777220, 1, 16777219, 1>>
    /\ SourceExceedsTarget
    /\ fit.nwidth = 16777220
    /\ fit.nwidth > fit.width2

\* C7 holds for the sizes `as f32` converts exactly, and there the computed
\* dimensions are the floors in exact arithmetic or one less (where the
\* binary32 product rounds below an integer).
C7_HoldsBelow2Pow24 ==
    (fit.done /\ Positive /\ SourceExceedsTarget /\ SizesConvertExactly)
        => /\ ShrinksIntoTarget
           /\ fit.nwidth \in {ExactWidth - 1, ExactWidth}
           /\ fit.nheight \in {ExactHeight - 1, ExactHeight}

\* The documented example, and the product that rounds below an integer:
\* a 1 x 41 source fitted into 1 x 1 gets height 0, not floor(41 * 1/41) = 1.
C7_ExampleComputed ==
    /\ fit.done
    /\ \/ /\ <<fit.width1, fit.height1, fit.width2, fit.height2>> = <<400, 300, 100, 100>>
          /\ fit.factor = F32DivU32(1, 4)
          /\ <<fit.nwidth, fit.nheight>> = <<100, 75>>
       \/ /\ <<fit.width1, fit.height1, fit.width2, fit.height2>> = <<1, 41, 1, 1>>
          /\ <<fit.nwidth, fit.nheight>> = <<0, 0>>

(***************************************************************************)
(* Properties of resize, checked under SpecResize.  In a state with        *)
(* lastOp = "resize", prev is the tensor before the call, tensor the one   *)
(* after it and newdims the requested <<width, height>>.  x and y count    *)
(* from 0, as in the claim.                                                *)
(***************************************************************************)
Resized == lastOp = "resize"

ZeroPixel == [c \in 1..CHANNELS |-> Zero]

\* floor(x * oldWidth / newWidth) and floor(y * oldHeight / newHeight)
FloorX(x) == (x * Len(prev[1])) \div newdims[1]
FloorY(y) == (y * Len(prev)) \div newdims[2]

OnBoundary(x, y) == FloorX(x) >= Len(prev[1]) - 1 \/ FloorY(y) >= Len(prev) - 1

\* The fractional remainder of a * b / d, as a binary32 value.
Remainder(a, b, d) ==
    LET q == F32Div(F32Mul(F32FromU32(a), F32FromU32(b)), F32FromU32(d))
    IN  F32Sub(q, F32FromU32(F32Trunc(q)))

\* Channel c of the bilinear blend of the pixels of prev at (x0, y0),
\* (x0+1, y0), (x0, y0+1) and (x0+1, y0+1) with weights dx and dy.
Bilinear(x0, y0, dx, dy, c) ==
    F32Add(F32Add(F32Add(
        F32Mul(F32Mul(F32Sub(One, dx), F32Sub(One, dy)), prev[y0 + 1][x0 + 1][c]),
        F32Mul(F32Mul(dx, F32Sub(One, dy)), prev[y0 + 1][x0 + 2][c])),
        F32Mul(F32Mul(F32Sub(One, dx), dy), prev[y0 + 2][x0 + 1][c])),
        F32Mul(F32Mul(dx, dy), prev[y0 + 2][x0 + 2][c]))

\* What C8 says of a finished resize, reading "all zero exactly when on the
\* boundary" as "all zero when on the boundary".
ResizeAsClaimed ==
    /\ Len(tensor) = newdims[2]
    /\ \A y \in 0..(newdims[2] - 1) : Len(tensor[y + 1]) = newdims[1]
    /\ (Len(prev[1]) = 1 \/ Len(prev) = 1) =>
          \A y \in 0..(newdims[2] - 1) : \A x \in 0..(newdims[1] - 1) :
              tensor[y + 1][x + 1] = ZeroPixel
    /\ newdims = <<Len(prev[1]), Len(prev)>> =>
          \A y \in 0..(newdims[2] - 1) : \A x \in 0..(newdims[1] - 1) :
              IF x < newdims[1] - 1 /\ y < newdims[2] - 1
              THEN tensor[y + 1][x + 1] = prev[y + 1][x + 1]
              ELSE tensor[y + 1][x + 1] = ZeroPixel
    /\ \A y \in 0..(newdims[2] - 1) : \A x \in 0..(newdims[1] - 1) :
          IF OnBoundary(x, y)
          THEN tensor[y + 1][x + 1] = ZeroPixel
          ELSE \A c \in 1..CHANNELS :
                  tensor[y + 1][x + 1][c]
                      = Bilinear(FloorX(x), FloorY(y),
                                 Remainder(x, Len(prev[1]), newdims[1]),
                                 Remainder(y, Len(prev), newdims[2]), c)

\* C8: resize replaces the tensor by a newHeight x newWidth one whose pixel
\* (x, y), with x0 = floor(x*oldWidth/newWidth) and
\* y0 = floor(y*oldHeight/newHeight), is all zero when x0 >= oldWidth-1 or
\* y0 >= oldHeight-1 (so a source of width 1 or height 1 gives an all-zero
\* result) and otherwise is the bilinear blend of the source pixels around
\* (x0, y0) weighted by the fractional remainders; a resize to the tensor's
\* own size leaves every pixel with x < width-1 and y < height-1 unchanged
\* and zeroes the last row and the last column.
C8_ResizeIsBilinear == Resized => ResizeAsClaimed

\* C8, where it fails: a 4099 x 2 tensor resized to 4099 x 2.  Pixel
\* (4095, 0) is not in the last row or column, and it is changed: the
\* binary32 coordinate 4095 * 4099 / 4099 comes out below 4095.
C8_Witness ==
    /\ Resized
    /\ Len(prev[1]) = 4099 /\ Len(prev) = 2
    /\ newdims = <<4099, 2>>
    /\ FloorX(4095) = 4095
    /\ ~OnBoundary(4095, 0)
    /\ tensor[1][4096] # prev[1][4096]

\* C8 holds while no width or height exceeds 4096 = 2^12, where every
\* product x * oldWidth is below 2^24 and the binary32 coordinate truncates
\* to the exact floor.
C8_HoldsUpTo4096 ==
    (/\ Resized
     /\ Len(prev[1]) <= 4096 /\ Len(prev) <= 4096
     /\ newdims[1] <= 4096 /\ newdims[2] <= 4096)
        => ResizeAsClaimed

\* The "only when" half of C8's "exactly when": a pixel that is all zero is
\* on the boundary.  A blend of four transparent black pixels is all zero
\* too, so this half does not hold.
C8_ZeroOnlyOnBoundary ==
    Resized =>
        \A y \in 0..(newdims[2] - 1) : \A x \in 0..(newdims[1] - 1) :
            tensor[y + 1][x + 1] = ZeroPixel => OnBoundary(x, y)

\* A bilinear blend in the middle of the tensor: a 3 x 3 tensor resized to
\* 2 x 2, whose pixel (1, 1) has x0 = y0 = 1 and weights 1/2.
C8_InteriorBlended ==
    /\ Resized
    /\ Len(prev) = 3 /\ Len(prev[1]) = 3
    /\ newdims = <<2, 2>>
    /\ ~OnBoundary(1, 1)
    /\ Remainder(1, 3, 2) = Half
    /\ tensor[2][2] # ZeroPixel

(***************************************************************************)
(* Properties of sequences of transforms, checked under Spec.              *)
(***************************************************************************)
Dims(t) == <<Len(t[1]), Len(t)>>

\* C10: after any sequence of flipVertical, flipHorizontal, resize(w, h)
\* with w, h >= 1 and addWatermark, started on a non-empty rectangular
\* tensor, the tensor has rows, all rows have equal length and every pixel
\* has 4 channels; resize sets width and height to the requested w and h,
\* and the flips and addWatermark leave them as they were.
C10_ShapeInvariant ==
    result # "panic" =>
        /\ Len(tensor) >= 1
        /\ Len(tensor[1]) >= 1
        /\ Rectangular(tensor)
        /\ lastOp = "resize" => Dims(tensor) = newdims
        /\ lastOp \in {"flip_vertical", "flip_horizontal", "addwatermark"}
              => Dims(tensor) = Dims(prev)

\* C10 witness: a resize that changed both dimensions, then an addWatermark
\* of a fitting overlay that changed a pixel.
C10_Witness ==
    /\ steps = 2
    /\ lastOp2 = "resize"
    /\ Dims(prev2) = <<1, 1>>
    /\ Dims(prev) = <<2, 2>>
    /\ Watermarked
    /\ OverlayFits
    /\ result = "Ok"
    /\ tensor # prev
    /\ Dims(tensor) = <<2, 2>>

=============================================================================
